---- MODULE Spec2Model ----
(***************************************************************************)
(* Model of src/main.py: a FastAPI service that scrapes the EPS package    *)
(* dashboard through one shared requests.Session and one process-wide      *)
(* CACHE dict.  Requests are modelled line by line (pc), so that the       *)
(* handlers can be run one at a time (SeqSpec) or interleaved (Spec).      *)
(* Strings are sequences of atoms (an atom is a character or an            *)
(* unbreakable run of non-separator characters).                           *)
(***************************************************************************)
EXTENDS Integers, Sequences, FiniteSets, TLC

VARIABLES clock, config, payload, cookie, CACHE, pc, call, result,
          ncalls, upstream, prev, wrote,
          cfgArgs, cfgRet, soup_packages, package_list

vars == <<clock, config, payload, cookie, CACHE, pc, call, result,
          ncalls, upstream, prev, wrote,
          cfgArgs, cfgRet, soup_packages, package_list>>

serverVars == <<clock, config, payload, cookie, CACHE, pc, call, result,
                ncalls, upstream, prev, wrote>>

pureVars == <<cfgArgs, cfgRet, soup_packages, package_list>>

----------------------------------------------------------------------------
(* Bounds of the model *)

NumReq == 2
MaxCalls == 3
MaxConcCalls == 2
MaxTicks == 3
MaxConcTicks == 1
TickSeconds == 900
StartEpoch == 2000
MaxGroupLen == 5

Requests == 1..NumReq

----------------------------------------------------------------------------
(* Values: Python str / int / ConfigParser object, and raised exceptions *)

StrVal(s) == [t |-> "str", s |-> s, n |-> 0]
IntVal(n) == [t |-> "int", s |-> <<>>, n |-> n]
ConfigObj == [t |-> "config", s |-> <<>>, n |-> 0]

Return(v) == [raised |-> FALSE, exc |-> "", value |-> v]
Raise(e) == [raised |-> TRUE, exc |-> e, value |-> StrVal(<<>>)]

----------------------------------------------------------------------------
(* str.split(sep) and str.split() *)

RECURSIVE SplitSep(_, _, _, _)
\* s.split(sep): every separator ends a part, empty parts are kept
SplitSep(s, sep, cur, acc) ==
    IF s = <<>> THEN Append(acc, cur)
    ELSE IF Head(s) = sep THEN SplitSep(Tail(s), sep, <<>>, Append(acc, cur))
    ELSE SplitSep(Tail(s), sep, Append(cur, Head(s)), acc)

Whitespace == {" "}

RECURSIVE SplitWs(_, _, _)
\* s.split(): runs of whitespace separate, empty parts are dropped
SplitWs(s, cur, acc) ==
    IF s = <<>> THEN (IF cur = <<>> THEN acc ELSE Append(acc, cur))
    ELSE IF Head(s) \in Whitespace
         THEN SplitWs(Tail(s), <<>>, IF cur = <<>> THEN acc ELSE Append(acc, cur))
         ELSE SplitWs(Tail(s), Append(cur, Head(s)), acc)

----------------------------------------------------------------------------
(* configparser: config.ini as a set of sections, each a map of options *)

NoSections == [x \in {} |-> [y \in {} |-> <<>>]]

\* config.read('config.ini'): a missing file is silently ignored
config_read(file) == IF file.exists THEN file.sections ELSE NoSections

\* the inner helper config_get(section_option, default) of get_config
config_get(cfg, section_option, default) ==
    LET parts == SplitSep(section_option, ".", <<>>, <<>>) IN
    IF Len(parts) # 2 THEN Raise("ValueError")
    ELSE LET section == parts[1]
             option == parts[2] IN
         IF section \notin DOMAIN cfg THEN Return(default)
         ELSE IF option \notin DOMAIN cfg[section] THEN Return(default)
         ELSE Return(StrVal(cfg[section][option]))

get_config(file, _section_config, _default) ==
    LET cfg == config_read(file)
        user == <<"user">>
        name == config_get(cfg, <<"user", ".", "name">>, StrVal(<<>>))
        password == config_get(cfg, <<"user", ".", "password">>, StrVal(<<>>))
    IN
    IF user \notin DOMAIN cfg THEN Raise("KeyError")
    ELSE LET cfg2 == [cfg EXCEPT ![user] =
                        [o \in DOMAIN cfg[user] \cup {<<"name">>, <<"password">>} |->
                            IF o = <<"name">> THEN name.value.s
                            ELSE IF o = <<"password">> THEN password.value.s
                            ELSE cfg[user][o]]]
         IN IF _section_config # <<>>
            THEN config_get(cfg2, _section_config, _default)
            ELSE Return(ConfigObj)

DigitOf == [c \in {"0", "1", "2", "3", "4", "5", "6", "7", "8", "9"} |->
               CASE c = "0" -> 0 [] c = "1" -> 1 [] c = "2" -> 2 [] c = "3" -> 3
                 [] c = "4" -> 4 [] c = "5" -> 5 [] c = "6" -> 6 [] c = "7" -> 7
                 [] c = "8" -> 8 [] c = "9" -> 9]

RECURSIVE DigitsValue(_, _)
DigitsValue(s, acc) ==
    IF s = <<>> THEN acc ELSE DigitsValue(Tail(s), 10 * acc + DigitOf[Head(s)])

\* float(x) for an int or a str of decimal digits; anything else is a ValueError
float(v) ==
    IF v.t = "int" THEN Return(IntVal(v.n))
    ELSE IF v.t = "str" /\ v.s # <<>> /\ \A i \in 1..Len(v.s) : v.s[i] \in DOMAIN DigitOf
         THEN Return(IntVal(DigitsValue(v.s, 0)))
         ELSE Raise("ValueError")

----------------------------------------------------------------------------
(* transform_package: one scraped DOM node to one record *)

Classes == {"packagecondition", "trackingnumber", "packagecontent",
            "packagesender", "packageweight"}

\* the dict literal {} returned from the except branch
EmptyRecord == [x \in {} |-> ""]

\* status5 and status6 exchanged (the table lists status6 before status5)
status_mapper_swapped ==
    ( <<"status1">> :> "origin" ) @@
    ( <<"status2">> :> "air line / ship" ) @@
    ( <<"status3">> :> "customs" ) @@
    ( <<"status4">> :> "distribution center" ) @@
    ( <<"status5">> :> "transit" ) @@
    ( <<"status6">> :> "available" ) @@
    ( <<"status7">> :> "availableV2" )

status_mapper ==
    ( <<"status1">> :> "origin" ) @@
    ( <<"status2">> :> "air line / ship" ) @@
    ( <<"status3">> :> "customs" ) @@
    ( <<"status4">> :> "distribution center" ) @@
    ( <<"status6">> :> "transit" ) @@
    ( <<"status5">> :> "available" ) @@
    ( <<"status7">> :> "availableV2" )

\* status_mapper.get(status, 'na')
mapper_get(status) ==
    IF status \in DOMAIN status_mapper THEN status_mapper[status] ELSE "na"

get_first(arr) == IF Len(arr) # 0 THEN arr[1] ELSE ""

\* a missing descendant treated like a childless one
find_fails_never(soup, c) == FALSE

\* soup.find(class_=c).contents raises AttributeError when find returns None
find_fails(soup, c) == ~soup.desc[c].found

transform_package(soup) ==
    IF ~soup.has_groups THEN EmptyRecord
    ELSE LET parts == SplitWs(soup.groups, <<>>, <<>>) IN
         IF Len(parts) # 3 THEN EmptyRecord
         ELSE IF \E c \in Classes : find_fails(soup, c) THEN EmptyRecord
         ELSE [condition |-> get_first(soup.desc["packagecondition"].contents),
               trackingNumber |-> get_first(soup.desc["trackingnumber"].contents),
               content |-> get_first(soup.desc["packagecontent"].contents),
               sender |-> get_first(soup.desc["packagesender"].contents),
               weight |-> get_first(soup.desc["packageweight"].contents),
               status |-> parts[2],
               statusLabel |-> parts[3],
               statusFormatted |-> mapper_get(parts[2])]

\* list(map(transform_package, soup_packages))
map_transform(nodes) == [i \in 1..Len(nodes) |-> transform_package(nodes[i])]

Found(cs) == [found |-> TRUE, contents |-> cs]
NotFound == [found |-> FALSE, contents |-> <<>>]

GoodNode == [has_groups |-> TRUE,
             groups |-> <<"item", " ", "status5", " ", "Disponible">>,
             desc |-> [c \in Classes |-> Found(<<c>>)]]
BadNode == [has_groups |-> TRUE,
            groups |-> <<"item", " ", "status5">>,
            desc |-> [c \in Classes |-> Found(<<c>>)]]

----------------------------------------------------------------------------
(* Module-level state: config.ini, the session, INITIAL_STATE and CACHE *)

File(sections) == [exists |-> TRUE, sections |-> sections]
MissingFile == [exists |-> FALSE, sections |-> NoSections]

UserSection == ( <<"name">> :> <<"u">> ) @@ ( <<"password">> :> <<"p">> )

\* config.ini files the service is run with: [user] complete, server.cache
\* left out (default 30 minutes) or set to 10 minutes
ServerConfigs ==
    { File( <<"user">> :> UserSection ),
      File( ( <<"user">> :> UserSection ) @@
            ( <<"server">> :> ( <<"cache">> :> <<"1", "0">> ) ) ) }

\* requests.Response of the dashboard GET, or the str '' (isResp = FALSE).
\* id: the call that fetched it; authed: is_logged_in() when it was fetched
\* at: the clock value when it was fetched
NoPage == [isResp |-> FALSE, id |-> 0, ok |-> FALSE, authed |-> FALSE, rows |-> <<>>,
           at |-> 0]
Response(id, ok, authed, rows) ==
    [isResp |-> TRUE, id |-> id, ok |-> ok, authed |-> authed, rows |-> rows,
     at |-> clock]

\* bool(CACHE['home']): '' is falsy, Response.__bool__ is Response.ok
bool_home(h) == IF h.isResp THEN h.ok ELSE FALSE

\* the rows '#fTrackingPaquetes [data-groups]' selects in a fetched page: an
\* error page (status >= 400) has no tracking table
PageRows(ok) == IF ok THEN { <<>>, <<GoodNode, BadNode>> } ELSE { <<>> }

NoResult == [kind |-> "none", text |-> "", keys |-> {}, items |-> <<>>, logged_in |-> FALSE]
Text(t) == [kind |-> "text", text |-> t, keys |-> {}, items |-> <<>>, logged_in |-> FALSE]
INITIAL_STATE ==
    [kind |-> "json", text |-> "", keys |-> {"items"}, items |-> <<>>, logged_in |-> FALSE]
Listing(items, li) ==
    [kind |-> "json", text |-> "", keys |-> {"items", "logged_in"},
     items |-> items, logged_in |-> li]

\* locals of one get_packages call, with counters of what the call did
IdleCall ==
    [route |-> "", id |-> 0, use_cache |-> TRUE, clear |-> FALSE, epoch |-> 0,
     server_cache |-> 0, epoch_difference |-> 0, eps_home |-> NoPage,
     package_list |-> <<>>,
     posts |-> 0, gets |-> 0, hit |-> FALSE, login_outcome |-> "", auth |-> "",
     start_lu |-> 0, start_empty |-> FALSE, start_cookie |-> FALSE]

NoPrev == [route |-> "", id |-> 0, outcome |-> "", epoch |-> 0, posts |-> 0,
           gets |-> 0, hit |-> FALSE, start_empty |-> FALSE, served |-> 0]

Summary(c, outcome) ==
    [route |-> c.route, id |-> c.id, outcome |-> outcome, epoch |-> c.epoch,
     posts |-> c.posts, gets |-> c.gets, hit |-> c.hit,
     start_empty |-> c.start_empty, served |-> c.eps_home.id]

\* which call stored CACHE['home'] last (line 152), which call wrote
\* CACHE['last_update'] last (lines 137, 153), and which call was the last
\* '/clear' (0: none yet)
NoWrites == [home_by |-> 0, lu_by |-> 0, clear_id |-> 0]

NoArgs == [file |-> MissingFile, key |-> <<>>, default |-> StrVal(<<>>), called |-> FALSE]

InitPure ==
    /\ cfgArgs = NoArgs
    /\ cfgRet = Return(StrVal(<<>>))
    /\ soup_packages = <<>>
    /\ package_list = <<>>

\* lines 51-66: username, password and payload are read from the config
Payload(file) ==
    [username |-> get_config(file, <<"user", ".", "name">>, StrVal(<<>>)).value.s,
     password |-> get_config(file, <<"user", ".", "password">>, StrVal(<<>>)).value.s]

InitServer(configs) ==
    /\ clock = StartEpoch
    /\ config \in configs
    /\ payload = Payload(config)
    /\ cookie = FALSE
    /\ CACHE = [home |-> NoPage, last_update |-> 0]
    /\ pc = [r \in Requests |-> "idle"]
    /\ call = [r \in Requests |-> IdleCall]
    /\ result = [r \in Requests |-> NoResult]
    /\ ncalls = 0
    /\ upstream = [posts |-> 0, gets |-> 0]
    /\ prev = NoPrev
    /\ wrote = NoWrites

Init == InitServer(ServerConfigs) /\ InitPure

\* the interleaved runs use the 10 minute window only
ConcConfigs ==
    { File( ( <<"user">> :> UserSection ) @@
            ( <<"server">> :> ( <<"cache">> :> <<"1", "0">> ) ) ) }

InitConc == InitServer(ConcConfigs) /\ InitPure

----------------------------------------------------------------------------
(* Session manager *)

is_logged_in == cookie

\* what the portal answers to the login POST
LoginOutcomes == {"set_cookie", "rejected", "non2xx", "expire_cookie", "network_error"}

\* a login whose network error is swallowed
login_swallow(r, o) ==
    /\ upstream' = [upstream EXCEPT !.posts = @ + 1]
    /\ cookie' = CASE o = "set_cookie" -> TRUE
                   [] o = "expire_cookie" -> FALSE
                   [] OTHER -> cookie
    /\ call' = [call EXCEPT ![r].posts = @ + 1, ![r].login_outcome = o]
    /\ pc' = [pc EXCEPT ![r] = "l151"]

\* session.post(URLS['login'], data=payload): updates the cookie jar,
\* raises only when no response arrives
login(r, o) ==
    /\ upstream' = [upstream EXCEPT !.posts = @ + 1]
    /\ cookie' = CASE o = "set_cookie" -> TRUE
                   [] o = "expire_cookie" -> FALSE
                   [] OTHER -> cookie
    /\ call' = [call EXCEPT ![r].posts = @ + 1, ![r].login_outcome = o]
    /\ pc' = [pc EXCEPT ![r] = IF o = "network_error" THEN "error" ELSE "l151"]

----------------------------------------------------------------------------
(* Routes and get_packages, one action per statement that touches shared state *)

\* the hour the comments speak of, instead of the configured minutes
Stale_hourly(epoch_difference, server_cache) == epoch_difference > 60 * 60

\* elapsed minutes exceed server_cache: epoch_difference / 60 > server_cache
Stale(epoch_difference, server_cache) == epoch_difference > 60 * server_cache

Abs(x) == IF x < 0 THEN -x ELSE x

\* routes '/' and '/now' entering get_packages: lines 127-131
Start(r, route) ==
    /\ pc[r] = "idle"
    /\ LET sc == float(get_config(config, <<"server", ".", "cache">>, IntVal(30)).value) IN
       /\ call' = [call EXCEPT ![r] =
                     [IdleCall EXCEPT !.route = route, !.id = ncalls + 1,
                                      !.use_cache = (route = "/"),
                                      !.clear = FALSE, !.epoch = clock,
                                      !.server_cache = sc.value.n,
                                      !.start_lu = CACHE.last_update,
                                      !.start_empty = ~CACHE.home.isResp,
                                      !.start_cookie = cookie]]
       /\ pc' = [pc EXCEPT ![r] = IF sc.raised THEN "error" ELSE "l132"]
    /\ ncalls' = ncalls + 1
    /\ UNCHANGED <<clock, config, payload, cookie, CACHE, result, upstream, prev, wrote>>

\* line 132
ReadLastUpdate(r) ==
    /\ pc[r] = "l132"
    /\ call' = [call EXCEPT ![r].epoch_difference = Abs(CACHE.last_update - call[r].epoch)]
    /\ pc' = [pc EXCEPT ![r] = "l136"]
    /\ UNCHANGED <<clock, config, payload, cookie, CACHE, result, ncalls, upstream, prev, wrote>>

\* lines 136-138
MarkStale(r) ==
    /\ pc[r] = "l136"
    /\ IF Stale(call[r].epoch_difference, call[r].server_cache)
       THEN /\ CACHE' = [CACHE EXCEPT !.last_update = call[r].epoch]
            /\ call' = [call EXCEPT ![r].clear = TRUE]
            /\ wrote' = [wrote EXCEPT !.lu_by = call[r].id]
       ELSE UNCHANGED <<CACHE, call, wrote>>
    /\ pc' = [pc EXCEPT ![r] = "l141"]
    /\ UNCHANGED <<clock, config, payload, cookie, result, ncalls, upstream, prev>>

\* the stale page kept
EmptyStale_keep(r) ==
    /\ pc[r] = "l141"
    /\ pc' = [pc EXCEPT ![r] = "l145"]
    /\ UNCHANGED <<clock, config, payload, cookie, CACHE, call, result, ncalls, upstream,
                   prev, wrote>>

\* lines 141-142
EmptyStale(r) ==
    /\ pc[r] = "l141"
    /\ IF call[r].clear /\ call[r].use_cache
       THEN CACHE' = [CACHE EXCEPT !.home = NoPage]
       ELSE UNCHANGED CACHE
    /\ pc' = [pc EXCEPT ![r] = "l145"]
    /\ UNCHANGED <<clock, config, payload, cookie, call, result, ncalls, upstream, prev, wrote>>

\* the miss branch going straight to the dashboard GET
TestCache_skip_login(r) ==
    /\ pc[r] = "l145"
    /\ pc' = [pc EXCEPT ![r] = IF bool_home(CACHE.home) /\ call[r].use_cache
                               THEN "l147" ELSE "l151"]
    /\ UNCHANGED <<clock, config, payload, cookie, CACHE, call, result, ncalls,
                   upstream, prev, wrote>>

\* line 145
TestCache(r) ==
    /\ pc[r] = "l145"
    /\ pc' = [pc EXCEPT ![r] = IF bool_home(CACHE.home) /\ call[r].use_cache
                               THEN "l147" ELSE "l150"]
    /\ UNCHANGED <<clock, config, payload, cookie, CACHE, call, result, ncalls,
                   upstream, prev, wrote>>

\* lines 146-147
UseCache(r) ==
    /\ pc[r] = "l147"
    /\ call' = [call EXCEPT ![r].eps_home = CACHE.home, ![r].hit = TRUE]
    /\ pc' = [pc EXCEPT ![r] = "l155"]
    /\ UNCHANGED <<clock, config, payload, cookie, CACHE, result, ncalls, upstream, prev, wrote>>

\* lines 149-150
Login(r) ==
    /\ pc[r] = "l150"
    /\ \E o \in LoginOutcomes : login(r, o)
    /\ UNCHANGED <<clock, config, payload, CACHE, result, ncalls, prev, wrote>>

\* line 151: session.get(URLS['home']) answers with a page or raises
Fetch(r) ==
    /\ pc[r] = "l151"
    /\ upstream' = [upstream EXCEPT !.gets = @ + 1]
    /\ \/ \E ok \in BOOLEAN : \E rows \in PageRows(ok) :
            /\ call' = [call EXCEPT ![r].gets = @ + 1,
                          ![r].eps_home = Response(call[r].id, ok, is_logged_in, rows)]
            /\ pc' = [pc EXCEPT ![r] = "l152"]
       \/ /\ call' = [call EXCEPT ![r].gets = @ + 1]
          /\ pc' = [pc EXCEPT ![r] = "error"]
    /\ UNCHANGED <<clock, config, payload, cookie, CACHE, result, ncalls, prev, wrote>>

\* a store that keeps a page already cached
StoreHome_if_empty(r) ==
    /\ pc[r] = "l152"
    /\ CACHE' = IF CACHE.home.isResp THEN CACHE
                ELSE [CACHE EXCEPT !.home = call[r].eps_home]
    /\ wrote' = [wrote EXCEPT !.home_by = call[r].id]
    /\ pc' = [pc EXCEPT ![r] = "l153"]
    /\ UNCHANGED <<clock, config, payload, cookie, call, result, ncalls, upstream, prev>>

\* line 152
StoreHome(r) ==
    /\ pc[r] = "l152"
    /\ CACHE' = [CACHE EXCEPT !.home = call[r].eps_home]
    /\ wrote' = [wrote EXCEPT !.home_by = call[r].id]
    /\ pc' = [pc EXCEPT ![r] = "l153"]
    /\ UNCHANGED <<clock, config, payload, cookie, call, result, ncalls, upstream, prev>>

\* the time of the store instead of the start time of the call
StoreLastUpdate_now(r) ==
    /\ pc[r] = "l153"
    /\ CACHE' = [CACHE EXCEPT !.last_update = clock]
    /\ wrote' = [wrote EXCEPT !.lu_by = call[r].id]
    /\ pc' = [pc EXCEPT ![r] = "l155"]
    /\ UNCHANGED <<clock, config, payload, cookie, call, result, ncalls, upstream, prev>>

\* line 153
StoreLastUpdate(r) ==
    /\ pc[r] = "l153"
    /\ CACHE' = [CACHE EXCEPT !.last_update = call[r].epoch]
    /\ wrote' = [wrote EXCEPT !.lu_by = call[r].id]
    /\ pc' = [pc EXCEPT ![r] = "l155"]
    /\ UNCHANGED <<clock, config, payload, cookie, call, result, ncalls, upstream, prev>>

\* the early return of line 156 left out
CheckLogin_no_return(r) ==
    /\ pc[r] = "l155"
    /\ call' = [call EXCEPT ![r].auth = IF is_logged_in THEN "yes" ELSE "no"]
    /\ pc' = [pc EXCEPT ![r] = "l159"]
    /\ UNCHANGED <<clock, config, payload, cookie, CACHE, result, ncalls, upstream, prev, wrote>>

\* lines 155-156
CheckLogin(r) ==
    /\ pc[r] = "l155"
    /\ call' = [call EXCEPT ![r].auth = IF is_logged_in THEN "yes" ELSE "no"]
    /\ IF ~is_logged_in
       THEN /\ result' = [result EXCEPT ![r] = INITIAL_STATE]
            /\ pc' = [pc EXCEPT ![r] = "done"]
       ELSE /\ pc' = [pc EXCEPT ![r] = "l159"]
            /\ UNCHANGED result
    /\ UNCHANGED <<clock, config, payload, cookie, CACHE, ncalls, upstream, prev, wrote>>

\* lines 159-163: eps_home.text raises AttributeError when eps_home is ''
Parse(r) ==
    /\ pc[r] = "l159"
    /\ IF call[r].eps_home.isResp
       THEN /\ call' = [call EXCEPT ![r].package_list = map_transform(call[r].eps_home.rows)]
            /\ pc' = [pc EXCEPT ![r] = "l165"]
       ELSE /\ pc' = [pc EXCEPT ![r] = "error"]
            /\ UNCHANGED call
    /\ UNCHANGED <<clock, config, payload, cookie, CACHE, result, ncalls, upstream, prev, wrote>>

\* lines 165-168
ReturnListing(r) ==
    /\ pc[r] = "l165"
    /\ result' = [result EXCEPT ![r] = Listing(call[r].package_list, is_logged_in)]
    /\ pc' = [pc EXCEPT ![r] = "done"]
    /\ UNCHANGED <<clock, config, payload, cookie, CACHE, call, ncalls, upstream, prev, wrote>>

\* '/clear' answering without touching CACHE
Clear_noop(r) ==
    /\ pc[r] = "idle"
    /\ result' = [result EXCEPT ![r] = Text("OK")]
    /\ call' = [call EXCEPT ![r] = [IdleCall EXCEPT !.route = "/clear", !.id = ncalls + 1,
                                                    !.start_lu = CACHE.last_update,
                                                    !.start_empty = ~CACHE.home.isResp]]
    /\ pc' = [pc EXCEPT ![r] = "done"]
    /\ ncalls' = ncalls + 1
    /\ wrote' = [wrote EXCEPT !.clear_id = ncalls + 1]
    /\ UNCHANGED <<clock, config, payload, cookie, CACHE, upstream, prev>>

\* '/clear' resetting the whole CACHE dict
Clear_resets_timestamp(r) ==
    /\ pc[r] = "idle"
    /\ CACHE' = [home |-> NoPage, last_update |-> 0]
    /\ result' = [result EXCEPT ![r] = Text("OK")]
    /\ call' = [call EXCEPT ![r] = [IdleCall EXCEPT !.route = "/clear", !.id = ncalls + 1,
                                                    !.start_lu = CACHE.last_update,
                                                    !.start_empty = ~CACHE.home.isResp]]
    /\ pc' = [pc EXCEPT ![r] = "done"]
    /\ ncalls' = ncalls + 1
    /\ wrote' = [wrote EXCEPT !.clear_id = ncalls + 1]
    /\ UNCHANGED <<clock, config, payload, cookie, upstream, prev>>

\* '/clear' emptying the cache only when the cached page tests true
Clear_if_truthy(r) ==
    /\ pc[r] = "idle"
    /\ CACHE' = IF bool_home(CACHE.home) THEN [CACHE EXCEPT !.home = NoPage] ELSE CACHE
    /\ result' = [result EXCEPT ![r] = Text("OK")]
    /\ call' = [call EXCEPT ![r] = [IdleCall EXCEPT !.route = "/clear", !.id = ncalls + 1,
                                                    !.start_lu = CACHE.last_update,
                                                    !.start_empty = ~CACHE.home.isResp]]
    /\ pc' = [pc EXCEPT ![r] = "done"]
    /\ ncalls' = ncalls + 1
    /\ wrote' = [wrote EXCEPT !.clear_id = ncalls + 1]
    /\ UNCHANGED <<clock, config, payload, cookie, upstream, prev>>

\* route '/clear': lines 112-118
Clear(r) ==
    /\ pc[r] = "idle"
    /\ CACHE' = [CACHE EXCEPT !.home = NoPage]
    /\ result' = [result EXCEPT ![r] = Text("OK")]
    /\ call' = [call EXCEPT ![r] = [IdleCall EXCEPT !.route = "/clear", !.id = ncalls + 1,
                                                    !.start_lu = CACHE.last_update,
                                                    !.start_empty = ~CACHE.home.isResp]]
    /\ pc' = [pc EXCEPT ![r] = "done"]
    /\ ncalls' = ncalls + 1
    /\ wrote' = [wrote EXCEPT !.clear_id = ncalls + 1]
    /\ UNCHANGED <<clock, config, payload, cookie, upstream, prev>>

\* the response (or the server error) is sent and the worker is free again
Finish(r) ==
    /\ pc[r] \in {"done", "error"}
    /\ prev' = Summary(call[r], pc[r])
    /\ call' = [call EXCEPT ![r] = IdleCall]
    /\ result' = [result EXCEPT ![r] = NoResult]
    /\ pc' = [pc EXCEPT ![r] = "idle"]
    /\ UNCHANGED <<clock, config, payload, cookie, CACHE, ncalls, upstream, wrote>>

\* datetime.now() advances
Tick(maxTicks) ==
    /\ clock + TickSeconds <= StartEpoch + maxTicks * TickSeconds
    /\ clock' = clock + TickSeconds
    /\ UNCHANGED <<config, payload, cookie, CACHE, pc, call, result, ncalls, upstream,
                   prev, wrote>>

Step(r) ==
    \/ ReadLastUpdate(r) \/ MarkStale(r) \/ EmptyStale(r) \/ TestCache(r)
    \/ UseCache(r) \/ Login(r) \/ Fetch(r) \/ StoreHome(r) \/ StoreLastUpdate(r)
    \/ CheckLogin(r) \/ Parse(r) \/ ReturnListing(r) \/ Finish(r)

\* the model stops admitting requests after `bound` of them
Admit(bound) == ncalls < bound

\* a new request goes to the first free worker
FirstFree(r) == \A q \in Requests : q < r => pc[q] # "idle"

\* requests served concurrently by the worker threads
Next ==
    \/ \E r \in Requests :
          \/ Admit(MaxConcCalls) /\ FirstFree(r) /\ Start(r, "/")
          \/ Admit(MaxConcCalls) /\ FirstFree(r) /\ Start(r, "/now")
          \/ Admit(MaxConcCalls) /\ FirstFree(r) /\ Clear(r)
          \/ Step(r)
    \/ Tick(MaxConcTicks)

Spec == InitConc /\ [][Next /\ UNCHANGED pureVars]_vars

\* requests served one at a time
SeqNext ==
    \/ Admit(MaxCalls) /\ Start(1, "/")
    \/ Admit(MaxCalls) /\ Start(1, "/now")
    \/ Admit(MaxCalls) /\ Clear(1)
    \/ Step(1)
    \/ Tick(MaxTicks)

SeqSpec == Init /\ [][SeqNext /\ UNCHANGED pureVars]_vars

----------------------------------------------------------------------------
(* get_config applied to every config.ini of a bounded shape *)

OptionNames == { <<"name">>, <<"password">> }
OptionValue(o) == IF o = <<"name">> THEN <<"u">> ELSE IF o = <<"password">> THEN <<"p">>
                  ELSE <<"1", "0">>

UserSections == { [o \in D |-> OptionValue(o)] : D \in SUBSET OptionNames }
ServerSections == { [o \in D |-> OptionValue(o)] : D \in SUBSET { <<"cache">> } }

SectionsOf(names, u, sv) == [sec \in names |-> IF sec = <<"user">> THEN u ELSE sv]

ConfigFiles ==
    { MissingFile } \cup
    { File(SectionsOf(names, u, sv)) :
        names \in SUBSET { <<"user">>, <<"server">> },
        u \in UserSections, sv \in ServerSections }

ConfigKeys == { <<"user", ".", "name">>, <<"user", ".", "password">>,
                <<"server", ".", "cache">>, <<"server", ".", "port">>,
                <<"db", ".", "host">>, <<>> }

ConfigDefaults == { StrVal(<<>>), StrVal(<<"d">>), IntVal(30) }

InitConfig ==
    /\ InitServer({ File( <<"user">> :> UserSection ) })
    /\ cfgArgs \in { [file |-> f, key |-> k, default |-> d, called |-> FALSE] :
                       f \in ConfigFiles, k \in ConfigKeys, d \in ConfigDefaults }
    /\ cfgRet = Return(StrVal(<<>>))
    /\ soup_packages = <<>>
    /\ package_list = <<>>

GetConfig ==
    /\ ~cfgArgs.called
    /\ cfgRet' = get_config(cfgArgs.file, cfgArgs.key, cfgArgs.default)
    /\ cfgArgs' = [cfgArgs EXCEPT !.called = TRUE]
    /\ UNCHANGED <<soup_packages, package_list>>
    /\ UNCHANGED serverVars

ConfigNext == GetConfig

ConfigSpec == InitConfig /\ [][ConfigNext]_vars

----------------------------------------------------------------------------
(* transform_package applied to every row of a bounded shape *)

StatusCodes == {"status1", "status2", "status3", "status4", "status5",
                "status6", "status7", "status9"}

Strings(atoms, n) == UNION { [1..k -> atoms] : k \in 0..n }

GroupsValues == UNION { Strings({" ", "x", c}, MaxGroupLen) : c \in StatusCodes }

FullDesc == [c \in Classes |-> Found(<<c, "more">>)]

\* all five descendants with children, or one of them childless or missing
NodeDescs ==
    { FullDesc } \cup
    { [FullDesc EXCEPT ![c] = d] : c \in Classes, d \in { NotFound, Found(<<>>) } }

Nodes ==
    { [has_groups |-> TRUE, groups |-> g, desc |-> d] : g \in GroupsValues, d \in NodeDescs }
    \cup { [has_groups |-> FALSE, groups |-> <<>>, desc |-> d] : d \in NodeDescs }

InitExtract ==
    /\ InitServer({ File( <<"user">> :> UserSection ) })
    /\ cfgArgs = NoArgs
    /\ cfgRet = Return(StrVal(<<>>))
    /\ soup_packages \in { <<n>> : n \in Nodes } \cup { <<n, GoodNode>> : n \in Nodes }
                         \cup { <<BadNode, n>> : n \in Nodes }
    /\ package_list = <<>>

\* line 163
Extract ==
    /\ package_list = <<>>
    /\ package_list' = map_transform(soup_packages)
    /\ UNCHANGED <<cfgArgs, cfgRet, soup_packages>>
    /\ UNCHANGED serverVars

ExtractNext == Extract

ExtractSpec == InitExtract /\ [][ExtractNext]_vars

----------------------------------------------------------------------------
(* Properties *)

\* the configured cache duration in minutes (default 30), and in seconds
CacheMinutes ==
    LET secs == config_read(config) IN
    IF <<"server">> \in DOMAIN secs /\ <<"cache">> \in DOMAIN secs[<<"server">>]
    THEN DigitsValue(secs[<<"server">>][<<"cache">>], 0)
    ELSE 30
Window == 60 * CacheMinutes

\* the call has got past the fetch-or-cache decision of lines 145-153
PastFetch(r) == pc[r] \in {"l152", "l153", "l155", "l159", "l165", "done"}

\* C1: starting from an empty cache, two sequential '/' calls, the second
\* starting at most the cache duration after the first, perform exactly one
\* dashboard fetch in total, whatever response the first fetch stored.
C1_OneFetchWithinWindow ==
    ( /\ pc[1] = "done" /\ call[1].route = "/"
      /\ prev.route = "/" /\ prev.outcome = "done" /\ prev.start_empty
      /\ call[1].epoch - prev.epoch <= Window )
    => ( prev.gets + call[1].gets = 1 /\ call[1].eps_home.id = prev.id )

C3_ClearForcesFetch ==
    \A r \in Requests :
      /\ ( pc[r] = "done" /\ call[r].route = "/clear" ) => result[r] = Text("OK")
      /\ ( call[r].route = "/" /\ prev.route = "/clear" )
         => /\ pc[r] # "l147" /\ ~call[r].hit
            /\ PastFetch(r) => /\ call[r].gets = 1
                               /\ call[r].eps_home.isResp
                               /\ call[r].eps_home.id = call[r].id

C3_Witness ==
    /\ pc[1] = "done" /\ call[1].route = "/" /\ prev.route = "/clear"
    /\ call[1].start_lu > 0 /\ call[1].epoch - call[1].start_lu <= Window
    /\ call[1].gets = 1

\* C4: when is_logged_in() is false at line 155, get_packages returns
\* INITIAL_STATE, {items: []} without a logged_in key, for '/' and '/now',
\* for a fetched page and for a cached one.
C4_LoggedOutEmpty ==
    \A r \in Requests :
      ( pc[r] = "done" /\ call[r].auth = "no" )
      => /\ result[r] = INITIAL_STATE
         /\ result[r].items = <<>>
         /\ "logged_in" \notin result[r].keys

C4_Witness ==
    /\ pc[1] = "done" /\ call[1].auth = "no" /\ call[1].hit
    /\ call[1].eps_home.rows # <<>>

\* C5: every '/now' call logs in and fetches once; on completion the cache
\* holds its page and its start time, and a '/' call following within the
\* window serves that page.
C5_NowRefreshesCache ==
    /\ ( pc[1] = "done" /\ call[1].route = "/now" )
       => /\ call[1].posts = 1 /\ call[1].gets = 1
          /\ call[1].eps_home.id = call[1].id
          /\ CACHE.home = call[1].eps_home
          /\ CACHE.last_update = call[1].epoch
    /\ ( /\ pc[1] = "done" /\ call[1].route = "/"
         /\ prev.route = "/now" /\ prev.outcome = "done"
         /\ call[1].epoch - prev.epoch <= Window )
       => ( call[1].gets = 0 /\ call[1].eps_home.id = prev.id )

\* C6: '/clear' empties CACHE['home'] and changes neither
\* CACHE['last_update'], the cookie jar, the login payload nor the count of
\* upstream requests.
C6_ClearFrame ==
    [][ \A r \in Requests :
          ( pc[r] = "idle" /\ pc'[r] = "done" /\ call'[r].route = "/clear" )
          => /\ CACHE'.home = NoPage
             /\ CACHE'.last_update = CACHE.last_update
             /\ cookie' = cookie /\ payload' = payload /\ upstream' = upstream ]_vars

C6_Witness ==
    /\ pc[1] = "done" /\ call[1].route = "/clear"
    /\ ~call[1].start_empty /\ CACHE.last_update > 0 /\ cookie
    /\ CACHE.home = NoPage /\ upstream.gets > 0

\* C7: the cached page is empty or was fetched while the session was
\* logged in.
C7_CachedPageAuthed == CACHE.home.isResp => CACHE.home.authed

\* C8: get_config never raises on missing configuration and returns the
\* stored value when the option is present, the given default otherwise.
C8_ConfigDefault ==
    ( cfgArgs.called /\ cfgArgs.key # <<>> )
    => LET secs == config_read(cfgArgs.file)
           parts == SplitSep(cfgArgs.key, ".", <<>>, <<>>)
           present == parts[1] \in DOMAIN secs /\ parts[2] \in DOMAIN secs[parts[1]]
       IN /\ ~cfgRet.raised
          /\ cfgRet.value = IF present THEN StrVal(secs[parts[1]][parts[2]])
                            ELSE cfgArgs.default

\* the status table of the claim
StatusLabels ==
    [c \in StatusCodes |->
        CASE c = "status1" -> "origin" [] c = "status2" -> "air line / ship"
          [] c = "status3" -> "customs" [] c = "status4" -> "distribution center"
          [] c = "status5" -> "available" [] c = "status6" -> "transit"
          [] c = "status7" -> "availableV2" [] OTHER -> "na"]

RecordFields == {"condition", "trackingNumber", "content", "sender", "weight",
                 "status", "statusLabel", "statusFormatted"}

Tokens(node) == SplitWs(node.groups, <<>>, <<>>)

WellFormed(node) ==
    /\ node.has_groups /\ Len(Tokens(node)) = 3
    /\ \A c \in Classes : node.desc[c].found

\* the first child of the descendant of class c, '' when it has none
FirstChild(node, c) ==
    IF node.desc[c].contents = <<>> THEN "" ELSE node.desc[c].contents[1]

\* C9: a row with exactly 3 tokens in data-groups and all five descendants
\* yields a record with all eight fields, status and statusLabel the 2nd and
\* 3rd token, statusFormatted the table's label of the status code, 'na' for
\* any other code.
C9_WellFormedRow ==
    package_list # <<>> =>
      \A i \in 1..Len(soup_packages) :
        WellFormed(soup_packages[i]) =>
          LET rec == package_list[i]
              toks == Tokens(soup_packages[i]) IN
          /\ DOMAIN rec = RecordFields
          /\ rec.status = toks[2] /\ rec.statusLabel = toks[3]
          /\ rec.statusFormatted =
               IF Len(toks[2]) = 1 /\ toks[2][1] \in StatusCodes
               THEN StatusLabels[toks[2][1]] ELSE "na"
          /\ rec.condition = FirstChild(soup_packages[i], "packagecondition")
          /\ rec.trackingNumber = FirstChild(soup_packages[i], "trackingnumber")
          /\ rec.content = FirstChild(soup_packages[i], "packagecontent")
          /\ rec.sender = FirstChild(soup_packages[i], "packagesender")
          /\ rec.weight = FirstChild(soup_packages[i], "packageweight")

C9_Witness ==
    /\ package_list # <<>> /\ WellFormed(soup_packages[1])
    /\ package_list[1].statusFormatted = "transit"
    /\ Len(soup_packages) = 2

\* C10: a row missing one of the five descendants, or without data-groups,
\* or whose data-groups does not split into exactly 3 tokens, yields {}; the
\* listing still has one entry per row.
C10_MalformedRow ==
    package_list # <<>> =>
      /\ Len(package_list) = Len(soup_packages)
      /\ \A i \in 1..Len(soup_packages) :
           ~WellFormed(soup_packages[i]) => DOMAIN package_list[i] = {}

C10_Witness ==
    /\ Len(package_list) = 2
    /\ \E c \in Classes : ~soup_packages[1].desc[c].found
    /\ Len(Tokens(soup_packages[1])) = 3
    /\ DOMAIN package_list[1] = {} /\ DOMAIN package_list[2] = RecordFields

\* the call is inside get_packages (route '/' or '/now')
InGetPackages(r) == call[r].route \in {"/", "/now"}

\* C11: whenever a '/' call takes the cache-hit path, the page it serves was
\* fetched at most the cache duration before the call started, also after a
\* '/now' whose login or fetch failed.
C11_HitIsFresh ==
    \A r \in Requests :
      ( call[r].hit /\ call[r].eps_home.isResp )
      => call[r].epoch - call[r].eps_home.at <= Window

C13_ListingLoggedIn ==
    \A r \in Requests :
      ( pc[r] = "done" /\ InGetPackages(r) /\ result[r] # INITIAL_STATE )
      => ( "logged_in" \in result[r].keys /\ result[r].logged_in )

\* the call took the cache-miss path and has executed both stores (152, 153)
Stored(r) ==
    /\ InGetPackages(r) /\ ~call[r].hit
    /\ pc[r] \in {"l155", "l159", "l165", "done"}
    /\ call[r].posts = 1 /\ call[r].gets = 1

\* two get_packages calls in flight together that both missed, logged in,
\* fetched and stored, with no '/clear' around
BothStored ==
    /\ wrote.clear_id = 0
    /\ \E r, q \in Requests : r # q /\ Stored(r) /\ Stored(q)

\* C14 (as claimed): after two concurrent cache-miss calls have both written
\* the cache, page and last_update are both those of the call that wrote last.
C14_LastWriterOwnsCache ==
    BothStored =>
      \E r \in Requests :
        /\ Stored(r) /\ call[r].id = wrote.lu_by
        /\ CACHE.home = call[r].eps_home
        /\ CACHE.last_update = call[r].epoch

\* C14 (amended): after two concurrent cache-miss calls have both written the
\* cache, each key holds what was written to that key last: the page is that
\* of the call that executed line 152 last and last_update the start time of
\* the call that executed line 153 last; these may be different calls.
C14_LastWritePerKey ==
    BothStored =>
      /\ \E r \in Requests :
           Stored(r) /\ call[r].id = wrote.home_by /\ CACHE.home = call[r].eps_home
      /\ \E q \in Requests :
           Stored(q) /\ call[q].id = wrote.lu_by /\ CACHE.last_update = call[q].epoch

\* both calls wrote; the cache keeps the page of the call that started last
\* and fetched last, with the last_update written by the other call
C14_Witness ==
    /\ BothStored
    /\ wrote.home_by = 2 /\ wrote.lu_by = 1
    /\ \E r, q \in Requests :
         /\ call[r].id = 1 /\ call[q].id = 2
         /\ call[q].eps_home.at > call[r].eps_home.at
         /\ CACHE.home = call[q].eps_home

\* C15 (as claimed): a login that fails, by a non-2xx response or by a
\* network error, ends the call in an error: no dashboard fetch, no normal
\* result, no page stored by the call.
C15_LoginFailureRaises ==
    \A r \in Requests :
      call[r].login_outcome \in {"non2xx", "network_error"}
      => /\ pc[r] = "error"
         /\ call[r].gets = 0
         /\ result[r] = NoResult
         /\ CACHE.home.id # call[r].id

\* C15 (amended): a login that fails by a network error ends the call in an
\* error: no dashboard fetch, no normal result, no page stored by the call.
\* A non-2xx answer of the login endpoint raises nothing: the call goes on
\* to fetch the dashboard.
C15_NetworkErrorRaises ==
    \A r \in Requests :
      /\ call[r].login_outcome = "network_error"
         => /\ pc[r] = "error"
            /\ call[r].gets = 0
            /\ result[r] = NoResult
            /\ CACHE.home.id # call[r].id
      /\ call[r].login_outcome = "non2xx"
         => /\ pc[r] = "error" => call[r].gets = 1
            /\ PastFetch(r) => call[r].gets = 1

C15_Witness ==
    /\ pc[1] = "error" /\ call[1].login_outcome = "network_error"
    /\ call[1].route = "/now" /\ ~call[1].start_empty /\ CACHE.home.isResp

\* C16 (as claimed): CACHE['last_update'] never exceeds the clock and never
\* decreases, under every interleaving.
C16_LastUpdateMonotone ==
    [][ CACHE'.last_update >= CACHE.last_update /\ CACHE'.last_update <= clock' ]_vars

\* C16 (amended): CACHE['last_update'] never exceeds the clock, and every
\* write sets it to the start time the writing call sampled on entry; it
\* decreases only when the writing call started before the call whose value
\* it overwrites.
C16_LastUpdateIsStartTime ==
    [][ /\ CACHE'.last_update <= clock'
        /\ CACHE'.last_update # CACHE.last_update
           => \E r \in Requests :
                /\ pc[r] \in {"l136", "l153"} /\ pc'[r] # pc[r]
                /\ CACHE'.last_update = call[r].epoch
                /\ wrote'.lu_by = call[r].id
                /\ CACHE'.last_update < CACHE.last_update => call[r].id < wrote.lu_by
      ]_vars

\* last_update is below the start time of a call that has already written it
C16_Witness ==
    \E r, q \in Requests :
      /\ r # q /\ Stored(q) /\ call[q].epoch > CACHE.last_update
      /\ wrote.lu_by = call[r].id /\ call[r].id < call[q].id

\* C17 (as claimed): after a '/clear', the cache page is empty or was stored
\* by a request that started after the '/clear'.
C17_ClearStaysEffective ==
    ( wrote.clear_id > 0 /\ CACHE.home.isResp ) => CACHE.home.id > wrote.clear_id

\* C17 (amended): '/clear' leaves the cache page empty, and it stays empty
\* until some get_packages call on the cache-miss path executes its store of
\* line 152, with the page that call fetched itself; the storing call may
\* have started before the '/clear'.
C17_EmptyUntilStore ==
    [][ /\ \A r \in Requests :
             ( pc[r] = "idle" /\ pc'[r] = "done" /\ call'[r].route = "/clear" )
             => ~CACHE'.home.isResp
        /\ ( ~CACHE.home.isResp /\ CACHE'.home.isResp )
           => \E r \in Requests :
                /\ pc[r] = "l152" /\ pc'[r] = "l153" /\ ~call[r].hit
                /\ CACHE'.home = call[r].eps_home
                /\ call[r].eps_home.id = call[r].id
      ]_vars

\* a completed '/clear', and the cache holds the page of an older call
C17_Witness ==
    /\ wrote.clear_id > 0 /\ CACHE.home.isResp /\ CACHE.home.id < wrote.clear_id
    /\ \E r \in Requests : pc[r] = "done" /\ call[r].route = "/clear"

\* a '/' call that started more than the cache duration after last_update,
\* with the session logged out, and whose login (if any) set the cookie
RecoveryCall(r) ==
    /\ call[r].route = "/" /\ ~call[r].start_cookie
    /\ call[r].epoch - call[r].start_lu > Window
    /\ call[r].login_outcome \in {"", "set_cookie"}

\* C18 (as claimed): with logins that set the cookie, the first '/' call that
\* starts after the cache window has elapsed answers with logged_in true.
C18_RecoveryByStaleCall ==
    \A r \in Requests :
      ( RecoveryCall(r) /\ pc[r] \in {"done", "error"} )
      => /\ pc[r] = "done"
         /\ "logged_in" \in result[r].keys /\ result[r].logged_in

\* C18 (amended): with logins that set the cookie, the first '/' call that
\* starts after the cache window has elapsed and whose dashboard GET returns
\* a response answers with logged_in true; it ends in an error only when
\* that GET raises.
C18_RecoveryUnlessGetRaises ==
    \A r \in Requests :
      RecoveryCall(r)
      => /\ pc[r] = "done" => ( "logged_in" \in result[r].keys /\ result[r].logged_in )
         /\ pc[r] = "error" => ( call[r].gets = 1 /\ ~call[r].eps_home.isResp )
         /\ pc[r] # "l147" /\ ~call[r].hit

C18_Witness ==
    /\ pc[1] = "done" /\ RecoveryCall(1)
    /\ call[1].start_lu > 0 /\ ~call[1].start_empty
    /\ result[1].logged_in /\ result[1].items # <<>>

====
